---- MODULE Spec2Model ----
(***************************************************************************)
(* A model of src/main.py: the CSV-backed user store (UserService), the    *)
(* in-memory session table (SessionManager), the auth middleware and the   *)
(* HTTP routes built on them.                                              *)
(*                                                                         *)
(* The specifications share the variables and the initial state:           *)
(*   SpecStore    calls of UserService (create_user, verify_user)          *)
(*   SpecSession  calls of SessionManager under a ticking clock            *)
(*   Spec         every GET, one request handled at a time                 *)
(*   SpecForms    every POST of the login and registration forms           *)
(*   SpecGate     the gated routes and logout                              *)
(*   SpecRegister every way of filling the registration form               *)
(*   SpecLogout   sessions opened and logged out                           *)
(*   SpecRace     two registrations in two threads, statement by statement *)
(*   SpecSessionRace  session calls in two threads, statement by statement *)
(*                                                                         *)
(* The created_at column of users.csv and the timestamp column of logs.csv *)
(* are written and shown but decide nothing; they are left out.            *)
(***************************************************************************)
EXTENDS Integers, Sequences, FiniteSets, TLC

VARIABLES
    users_csv,   \* data/users.csv: the rows on disk, as text fields
    logs_csv,    \* data/logs.csv: the rows on disk
    sessions,    \* SessionManager.sessions: session id -> [created, username]
    minted,      \* every session id uuid4 has returned so far -> when it did
    registered,  \* <<username, password>> of every create_user that returned True
    now,         \* datetime.now(), in minutes since start-up
    call,        \* the operation handled last, with its arguments
    ret,         \* what that operation returned
    threads      \* the worker threads: where each is in the handler it runs

vars == <<users_csv, logs_csv, sessions, minted, registered, now, call, ret,
          threads>>

-----------------------------------------------------------------------------
(* Bounds of the model *)

MaxUsers == 3       \* rows of users.csv
MaxSessions == 2    \* session ids uuid4 may return
MaxTime == 60       \* the clock stops here
MaxLog == 3         \* rows of logs.csv

(* Config *)

SESSION_TTL == 30
ADMIN_LOGIN == "admin"
ADMIN_PASSWORD == "12345"
WHITE_URLS == {<<"/">>, <<"/login">>, <<"/logout">>, <<"/register">>}

(* Values *)

None == "<None>"    \* Python's None
NaN == "<NaN>"      \* pandas' missing value; equal to no string a caller passes
NoCookie == 0       \* the request carries no session_id cookie

Usernames == {"admin", "alice", "NA"}
Passwords == {"12345", "pw1", "pw2"}
Roles == {"admin", "user"}
SessionIds == 1..MaxSessions

\* Two worker threads of the thread pool that runs the handlers; each is at a
\* statement (pc) of the call it makes, with the call's argument, its local
\* variables and, when it has returned, what it returned
Threads == {"t1", "t2"}
IdleThread == [pc |-> "idle", arg |-> <<>>, local |-> <<>>, ret |-> None]
TickSteps == {15, 30}

-----------------------------------------------------------------------------
(* UserService *)

\* hashlib.sha256(password.encode()).hexdigest(): a digest, distinct for
\* distinct passwords of the model, and never the password itself
hash_password(password) == <<"sha256", password>>

\* The strings pandas.read_csv turns into a missing value (its default
\* na_values), among the strings of the model
NaValues == {"", "NA"}

\* pd.read_csv on one text field / DataFrame.to_csv on one cell
ParseField(text) == IF text \in NaValues THEN NaN ELSE text
WriteField(cell) == IF cell = NaN THEN "" ELSE cell

read_csv(rows) ==
    [i \in 1..Len(rows) |->
        [username |-> ParseField(rows[i].username),
         password |-> rows[i].password,
         role |-> ParseField(rows[i].role)]]

to_csv(frame) ==
    [i \in 1..Len(frame) |->
        [username |-> WriteField(frame[i].username),
         password |-> frame[i].password,
         role |-> WriteField(frame[i].role)]]

get_all_users == read_csv(users_csv)

\* users[users["username"] == username]: the indices of the matching rows
MatchingRows(username) ==
    {i \in 1..Len(get_all_users) : get_all_users[i].username = username}

Min(S) == CHOOSE x \in S : \A y \in S : x <= y

\* get_user's None, a record so that it compares with the rows
NoUser == [username |-> None]

get_user(username) ==
    IF MatchingRows(username) = {}
    THEN NoUser
    ELSE get_all_users[Min(MatchingRows(username))]

\* create_user: the value returned, and the file it leaves
create_user_ret(username) ==
    ~ (\E i \in 1..Len(get_all_users) : get_all_users[i].username = username)

create_user_csv(username, password, role) ==
    IF create_user_ret(username)
    THEN to_csv(Append(get_all_users,
                       [username |-> username,
                        password |-> hash_password(password),
                        role |-> role]))
    ELSE users_csv

\* create_user past its check, in a thread that read the table as frame: the
\* file it writes. The first is the file it would write if it read the table
\* again on writing.
create_user_write_fresh(frame, username, password, role) ==
    to_csv(Append(get_all_users,
                  [username |-> username,
                   password |-> hash_password(password),
                   role |-> role]))

create_user_write(frame, username, password, role) ==
    to_csv(Append(frame,
                  [username |-> username,
                   password |-> hash_password(password),
                   role |-> role]))

verify_user(username, password) ==
    IF get_user(username) = NoUser
    THEN FALSE
    ELSE get_user(username).password = hash_password(password)

get_users_count == Len(get_all_users)

\* write_log appends one row
write_log(log, level, event, username) ==
    Append(log, [level |-> level, event |-> event, username |-> username])

-----------------------------------------------------------------------------
(* SessionManager, as functions of the table and the time of the call *)

get_username_ret_strict(tbl, session_id, t) ==
    IF session_id = NoCookie \/ session_id \notin DOMAIN tbl
    THEN None
    ELSE IF t - tbl[session_id].created >= SESSION_TTL
         THEN None
         ELSE tbl[session_id].username

get_username_ret(tbl, session_id, t) ==
    IF session_id = NoCookie \/ session_id \notin DOMAIN tbl
    THEN None
    ELSE IF t - tbl[session_id].created > SESSION_TTL
         THEN None
         ELSE tbl[session_id].username

get_username_tbl_norefresh(tbl, session_id, t) ==
    IF session_id = NoCookie \/ session_id \notin DOMAIN tbl
    THEN tbl
    ELSE IF t - tbl[session_id].created > SESSION_TTL
         THEN [s \in DOMAIN tbl \ {session_id} |-> tbl[s]]
         ELSE tbl

get_username_tbl(tbl, session_id, t) ==
    IF session_id = NoCookie \/ session_id \notin DOMAIN tbl
    THEN tbl
    ELSE IF t - tbl[session_id].created > SESSION_TTL
         THEN [s \in DOMAIN tbl \ {session_id} |-> tbl[s]]
         ELSE [tbl EXCEPT ![session_id].created = t]

delete_session_tbl_noop(tbl, session_id) == tbl

delete_session_tbl(tbl, session_id) ==
    IF session_id \in DOMAIN tbl
    THEN [s \in DOMAIN tbl \ {session_id} |-> tbl[s]]
    ELSE tbl

\* uuid.uuid4(): an identifier never returned before. The identifiers are
\* opaque, so which fresh one it is does not matter: the least.
FreshIds == SessionIds \ DOMAIN minted

uuid4_reused == Min(SessionIds \ DOMAIN sessions)

uuid4 == Min(FreshIds)

create_session_tbl(tbl, session_id, username, t) ==
    [s \in DOMAIN tbl \cup {session_id} |->
        IF s = session_id THEN [created |-> t, username |-> username]
        ELSE tbl[s]]

\* minted, once the identifiers new in tbl are added
Minted(tbl) == [s \in DOMAIN minted \cup DOMAIN tbl |->
                    IF s \in DOMAIN minted THEN minted[s] ELSE now]

\* now - created of a session, for the record of the call (-1: no such session)
Age(session_id) ==
    IF session_id \in DOMAIN sessions THEN now - sessions[session_id].created ELSE -1

-----------------------------------------------------------------------------
(* The state after construction: UserService.__init__ has created users.csv
   with the admin row and logged it; the session table is empty *)

Init ==
    /\ users_csv = <<[username |-> ADMIN_LOGIN,
                      password |-> hash_password(ADMIN_PASSWORD),
                      role |-> "admin"]>>
    /\ logs_csv = <<[level |-> "INFO", event |-> "admin_created",
                     username |-> ADMIN_LOGIN]>>
    /\ sessions = <<>>
    /\ minted = <<>>
    /\ registered = {<<ADMIN_LOGIN, ADMIN_PASSWORD>>}
    /\ now = 0
    /\ call = [op |-> "init"]
    /\ ret = None
    /\ threads = [t \in Threads |-> IdleThread]

-----------------------------------------------------------------------------
(* Calls of UserService *)

CreateUser(username, password, role) ==
    /\ Len(users_csv) < MaxUsers \/ ~ create_user_ret(username)
    /\ users_csv' = create_user_csv(username, password, role)
    /\ registered' = IF create_user_ret(username)
                     THEN registered \cup {<<username, password>>}
                     ELSE registered
    /\ call' = [op |-> "create_user", username |-> username,
                password |-> password, role |-> role]
    /\ ret' = create_user_ret(username)
    /\ UNCHANGED <<logs_csv, sessions, minted, now, threads>>

VerifyUser(username, password) ==
    /\ call' = [op |-> "verify_user", username |-> username, password |-> password]
    /\ ret' = verify_user(username, password)
    /\ UNCHANGED <<users_csv, logs_csv, sessions, minted, registered, now, threads>>

NextStore ==
    \/ \E u \in Usernames, p \in Passwords, r \in Roles : CreateUser(u, p, r)
    \/ \E u \in Usernames, p \in Passwords : VerifyUser(u, p)

SpecStore == Init /\ [][NextStore]_vars

-----------------------------------------------------------------------------
(* Calls of SessionManager *)

CreateSession(username) ==
    /\ FreshIds # {}
    /\ sessions' = create_session_tbl(sessions, uuid4, username, now)
    /\ minted' = Minted(sessions')
    /\ ret' = uuid4
    /\ call' = [op |-> "create_session", username |-> username]
    /\ UNCHANGED <<users_csv, logs_csv, registered, now, threads>>

GetUsername(session_id) ==
    /\ sessions' = get_username_tbl(sessions, session_id, now)
    /\ ret' = get_username_ret(sessions, session_id, now)
    /\ call' = [op |-> "get_username", sid |-> session_id, age |-> Age(session_id)]
    /\ UNCHANGED <<users_csv, logs_csv, minted, registered, now, threads>>

DeleteSession(session_id) ==
    /\ sessions' = delete_session_tbl(sessions, session_id)
    /\ ret' = None
    /\ call' = [op |-> "delete_session", sid |-> session_id]
    /\ UNCHANGED <<users_csv, logs_csv, minted, registered, now, threads>>

Tick(d) ==
    /\ now + d <= MaxTime
    /\ now' = now + d
    /\ call' = [op |-> "tick"]
    /\ ret' = None
    /\ UNCHANGED <<users_csv, logs_csv, sessions, minted, registered, threads>>

NextSession ==
    \/ \E u \in Usernames : CreateSession(u)
    \/ \E s \in SessionIds : GetUsername(s)
    \/ \E s \in SessionIds : DeleteSession(s)
    \/ \E d \in TickSteps : Tick(d)

SpecSession == Init /\ [][NextSession]_vars

-----------------------------------------------------------------------------
(* HTTP: requests and responses *)

\* A path is written as the sequence of the pieces it is the concatenation
\* of, cut so that str.startswith(prefix) is a test of the first piece:
\* <<"/main", "/", "alice">> is /main/alice, <<"/main", "frame">> is
\* /mainframe.
Paths ==
    {<<"/">>, <<"/login">>, <<"/logout">>, <<"/register">>,
     <<"/static", "/app.css">>, <<"/api/users">>, <<"/api/logs">>,
     <<"/nope">>, <<"/main", "frame">>}
    \cup {<<"/welcome", "/", u>> : u \in Usernames}
    \cup {<<"/main", "/", u>> : u \in {"admin", "alice"}}

startswith(path, prefix) == path[1] = prefix

Cookies == SessionIds \cup {NoCookie}

\* str.strip() on the strings of the model
strip(text) ==
    CASE text = " alice " -> "alice"
      [] text = " " -> ""
      [] OTHER -> text

\* What the forms are filled with: names and passwords as typed (strip cuts
\* " alice " to "alice" and " " to ""), and admin_login / admin_password
FormUsernames == {"admin", " alice ", "NA", " "}
FormPasswords == {"12345", "pw1", " "}
AdminPairs == {<<"admin", "12345">>, <<"admin", "pw1">>, <<"alice", "12345">>}

\* The forms the page specification submits: enough to create the users and
\* to open sessions for them and for the administrator
PageLogins == {<<"admin", "12345">>, <<" alice ", "pw1">>, <<"NA", "pw1">>,
               <<"admin", "pw1">>}
PageRegistrations == {<<" alice ", "pw1">>, <<"NA", "pw1">>}
FormPaths == {<<"/logout">>, <<"/welcome", "/", "alice">>}

\* The requests of the gate specification: the gated routes and logout, for
\* the administrator and the registered users
GatePaths ==
    {<<"/logout">>, <<"/api/users">>, <<"/api/logs">>,
     <<"/welcome", "/", "alice">>, <<"/main", "/", "admin">>,
     <<"/main", "/", "alice">>}
GateLogins == {<<"admin", "12345">>, <<" alice ", "pw1">>}
GateRegistrations == {<<" alice ", "pw1">>, <<"NA", "pw1">>}

\* A response: its status, its Location header (<<>>: none), what it does to
\* the session_id cookie (0: nothing, -1: delete_cookie, a session id:
\* set_cookie), the route function whose body ran ("none": none did), and
\* what it renders
Response(status, location, cookie, handler, body) ==
    [status |-> status, location |-> location, cookie |-> cookie,
     handler |-> handler, body |-> body]

KeepCookie == 0
DeleteCookie == -1

\* What handling a request leaves: the response, the session table, the log
Outcome(resp, tbl, log) == [resp |-> resp, tbl |-> tbl, log |-> log]

\* RedirectResponse(url='/login'): 307 unless a status is given
RedirectToLogin(handler, cookie) ==
    Response(307, <<"/login">>, cookie, handler, "")

\* HTTPException(status_code=302, headers={"Location": "/login"})
AuthRedirect == Response(302, <<"/login">>, KeepCookie, "none", "")

\* forbidden_handler / not_found_handler
Forbidden(handler) == Response(403, <<>>, KeepCookie, handler, "403.html")
NotFound(handler) == Response(404, <<>>, KeepCookie, handler, "404.html")

get_current_user_ret(tbl, cookie) ==
    IF cookie # NoCookie THEN get_username_ret(tbl, cookie, now) ELSE None

get_current_user_tbl(tbl, cookie) ==
    IF cookie # NoCookie THEN get_username_tbl(tbl, cookie, now) ELSE tbl

\* require_admin, given the user require_auth returned
is_admin_anyone(user) == TRUE

is_admin(user) ==
    ~ (get_user(user) = NoUser \/ get_user(user).role # "admin")

-----------------------------------------------------------------------------
(* The GET routes. Each takes the session table and the log as the middleware
   left them. *)

login_page(tbl, log) ==
    Outcome(Response(200, <<>>, KeepCookie, "login_page", "login.html"), tbl, log)

register_page(tbl, log) ==
    Outcome(Response(200, <<>>, KeepCookie, "register_page", "registr.html"), tbl, log)

\* welcome_page without the comparison of the session's user and the path
welcome_page_anyone(tbl, log, username, cookie) ==
    LET current_user == get_current_user_ret(tbl, cookie)
        tbl2 == get_current_user_tbl(tbl, cookie)
    IN  IF current_user = None THEN Outcome(AuthRedirect, tbl2, log)
        ELSE IF get_user(username) = NoUser
             THEN Outcome(NotFound("welcome_page"), tbl2, log)
        ELSE Outcome(Response(200, <<>>, KeepCookie, "welcome_page", username),
                     tbl2, log)

welcome_page(tbl, log, username, cookie) ==
    LET current_user == get_current_user_ret(tbl, cookie)
        tbl2 == get_current_user_tbl(tbl, cookie)
    IN  IF current_user = None THEN Outcome(AuthRedirect, tbl2, log)
        ELSE IF current_user # username
             THEN Outcome(Forbidden("welcome_page"), tbl2, log)
        ELSE IF get_user(username) = NoUser
             THEN Outcome(NotFound("welcome_page"), tbl2, log)
        ELSE Outcome(Response(200, <<>>, KeepCookie, "welcome_page", username),
                     tbl2, log)

\* Depends(require_admin) for the three admin routes: the response that ends
\* the request before the route function runs, or "pass"
require_admin(tbl, cookie) ==
    LET user == get_current_user_ret(tbl, cookie)
    IN  IF user = None THEN AuthRedirect
        ELSE IF ~ is_admin(user) THEN Forbidden("none")
        ELSE Response(0, <<>>, KeepCookie, "pass", user)

admin_panel(tbl, log, username, cookie) ==
    LET dep == require_admin(tbl, cookie)
        tbl2 == get_current_user_tbl(tbl, cookie)
    IN  IF dep.handler # "pass" THEN Outcome(dep, tbl2, log)
        ELSE IF dep.body # username
             THEN Outcome(Forbidden("admin_panel"), tbl2, log)
        ELSE Outcome(Response(200, <<>>, KeepCookie, "admin_panel", "main.html"),
                     tbl2, log)

get_users_api(tbl, log, cookie) ==
    LET dep == require_admin(tbl, cookie)
        tbl2 == get_current_user_tbl(tbl, cookie)
    IN  IF dep.handler # "pass" THEN Outcome(dep, tbl2, log)
        ELSE Outcome(Response(200, <<>>, KeepCookie, "get_users_api", "users"),
                     tbl2, log)

get_logs_api(tbl, log, cookie) ==
    LET dep == require_admin(tbl, cookie)
        tbl2 == get_current_user_tbl(tbl, cookie)
    IN  IF dep.handler # "pass" THEN Outcome(dep, tbl2, log)
        ELSE Outcome(Response(200, <<>>, KeepCookie, "get_logs_api", "logs"),
                     tbl2, log)

\* a logout that ends every session of the user
logout_everywhere(tbl, log, cookie) ==
    LET username == get_username_ret(tbl, cookie, now)
        tbl2 == [s \in {x \in DOMAIN tbl : tbl[x].username # username} |-> tbl[s]]
        resp == RedirectToLogin("logout", DeleteCookie)
    IN  IF cookie = NoCookie THEN Outcome(resp, tbl, log)
        ELSE IF username # None
             THEN Outcome(resp, tbl2, write_log(log, "INFO", "logout", username))
        ELSE Outcome(resp, delete_session_tbl(tbl, cookie), log)

logout(tbl, log, cookie) ==
    LET username == get_username_ret(tbl, cookie, now)
        tbl2 == delete_session_tbl(get_username_tbl(tbl, cookie, now), cookie)
        resp == RedirectToLogin("logout", DeleteCookie)
    IN  IF cookie = NoCookie THEN Outcome(resp, tbl, log)
        ELSE IF username # None
             THEN Outcome(resp, tbl2, write_log(log, "INFO", "logout", username))
        ELSE Outcome(resp, tbl2, log)

\* The router: the GET route a path matches
Route(path) ==
    CASE path \in {<<"/">>, <<"/login">>} -> "login_page"
      [] path = <<"/register">> -> "register_page"
      [] path = <<"/logout">> -> "logout"
      [] path = <<"/api/users">> -> "get_users_api"
      [] path = <<"/api/logs">> -> "get_logs_api"
      [] Len(path) = 3 /\ path[1] = "/welcome" /\ path[2] = "/" -> "welcome_page"
      [] Len(path) = 3 /\ path[1] = "/main" /\ path[2] = "/" -> "admin_panel"
      [] Len(path) = 2 /\ path[1] = "/static" -> "static"
      [] OTHER -> "none"

\* call_next(request) for a GET
call_next(tbl, log, path, cookie) ==
    CASE Route(path) = "login_page" -> login_page(tbl, log)
      [] Route(path) = "register_page" -> register_page(tbl, log)
      [] Route(path) = "logout" -> logout(tbl, log, cookie)
      [] Route(path) = "get_users_api" -> get_users_api(tbl, log, cookie)
      [] Route(path) = "get_logs_api" -> get_logs_api(tbl, log, cookie)
      [] Route(path) = "welcome_page" -> welcome_page(tbl, log, path[3], cookie)
      [] Route(path) = "admin_panel" -> admin_panel(tbl, log, path[3], cookie)
      [] Route(path) = "static" ->
            Outcome(Response(200, <<>>, KeepCookie, "static", "file"), tbl, log)
      [] OTHER -> Outcome(NotFound("none"), tbl, log)

\* Which requests the middleware lets through without a session
passes_unchecked(path) ==
    \/ startswith(path, "/static")
    \/ path \in WHITE_URLS
    \/ startswith(path, "/main")

auth_middleware(path, cookie) ==
    IF passes_unchecked(path)
    THEN call_next(sessions, logs_csv, path, cookie)
    ELSE IF get_current_user_ret(sessions, cookie) = None
         THEN Outcome(RedirectToLogin("none", KeepCookie),
                      get_current_user_tbl(sessions, cookie), logs_csv)
         ELSE call_next(get_current_user_tbl(sessions, cookie), logs_csv,
                        path, cookie)

-----------------------------------------------------------------------------
(* The POST routes (both paths are in WHITE_URLS: the middleware passes) *)

TemplateError(handler, error) == Response(200, <<>>, KeepCookie, handler, error)

Welcome(handler, username, session_id) ==
    Response(302, <<"/welcome", "/", username>>, session_id, handler, "")

\* login: the outcome when create_session returns session_id
login(form_username, form_password, session_id) ==
    LET username == strip(form_username)
        password == strip(form_password)
    IN  IF username = "" \/ password = ""
        THEN Outcome(TemplateError("login", "required"), sessions, logs_csv)
        ELSE IF verify_user(username, password)
        THEN Outcome(Welcome("login", username, session_id),
                     create_session_tbl(sessions, session_id, username, now),
                     write_log(logs_csv, "INFO", "login_ok", username))
        ELSE Outcome(TemplateError("login", "invalid_credentials"), sessions,
                     write_log(logs_csv, "WARNING", "login_failed", username))

\* register: the branch taken
\* (the first: without the check of the admin pair)
register_branch_noadmin(form_username, form_password, admin_login, admin_password) ==
    LET username == strip(form_username)
        password == strip(form_password)
    IN  IF username = "" \/ password = "" THEN "required"
        ELSE IF get_user(username) # NoUser THEN "exists"
        ELSE IF create_user_ret(username) THEN "created"
        ELSE "create_failed"

register_branch(form_username, form_password, admin_login, admin_password) ==
    LET username == strip(form_username)
        password == strip(form_password)
    IN  IF username = "" \/ password = "" THEN "required"
        ELSE IF admin_login # ADMIN_LOGIN \/ admin_password # ADMIN_PASSWORD
        THEN "bad_admin"
        ELSE IF get_user(username) # NoUser THEN "exists"
        ELSE IF create_user_ret(username) THEN "created"
        ELSE "create_failed"

\* every registration stored with the administrator's role
register_role_admin(username) == "admin"

register_role(username) == IF username = ADMIN_LOGIN THEN "admin" ELSE "user"

register(form_username, form_password, admin_login, admin_password, session_id) ==
    LET username == strip(form_username)
        branch == register_branch(form_username, form_password,
                                  admin_login, admin_password)
    IN  IF branch = "created"
        THEN Outcome(Welcome("register", username, session_id),
                     create_session_tbl(sessions, session_id, username, now),
                     write_log(logs_csv, "INFO", "register_ok", username))
        ELSE Outcome(TemplateError("register", branch), sessions, logs_csv)

-----------------------------------------------------------------------------
(* Requests, handled one at a time *)

\* room: the rows logs.csv may grow to in the specification at hand
GetWithin(path, cookie, room) ==
    LET out == auth_middleware(path, cookie)
    IN  /\ Len(out.log) <= room
        /\ sessions' = out.tbl
        /\ logs_csv' = out.log
        /\ ret' = out.resp
        /\ call' = [op |-> "GET", path |-> path, cookie |-> cookie,
                    user |-> get_current_user_ret(sessions, cookie)]
        /\ UNCHANGED <<users_csv, minted, registered, now, threads>>

LoginCreates(username, password) ==
    login(username, password, 1).resp.status = 302

Get(path, cookie) == GetWithin(path, cookie, MaxLog)

PostLoginWithin(username, password, room) ==
    /\ LoginCreates(username, password) => FreshIds # {}
    /\ LET out == IF LoginCreates(username, password)
                  THEN login(username, password, uuid4)
                  ELSE login(username, password, 1)
       IN  /\ Len(out.log) <= room
           /\ sessions' = out.tbl
           /\ minted' = Minted(out.tbl)
           /\ logs_csv' = out.log
           /\ ret' = out.resp
           /\ call' = [op |-> "POST /login", username |-> username,
                       password |-> password]
           /\ UNCHANGED <<users_csv, registered, now, threads>>

PostLogin(username, password) == PostLoginWithin(username, password, MaxLog)

PostRegisterWithin(username, password, admin_login, admin_password, room) ==
    LET created == register_branch(username, password,
                                   admin_login, admin_password) = "created"
        out == IF created
               THEN register(username, password, admin_login, admin_password, uuid4)
               ELSE register(username, password, admin_login, admin_password, 1)
    IN  /\ created => FreshIds # {} /\ Len(users_csv) < MaxUsers
        /\ Len(out.log) <= room
        /\ users_csv' = IF created
                        THEN create_user_csv(strip(username), strip(password),
                                             register_role(strip(username)))
                        ELSE users_csv
        /\ registered' = IF created
                         THEN registered \cup {<<strip(username), strip(password)>>}
                         ELSE registered
        /\ sessions' = out.tbl
        /\ minted' = Minted(out.tbl)
        /\ logs_csv' = out.log
        /\ ret' = out.resp
        /\ call' = [op |-> "POST /register", username |-> username,
                    password |-> password, admin_login |-> admin_login,
                    admin_password |-> admin_password]
        /\ UNCHANGED <<now, threads>>

PostRegister(username, password, admin_login, admin_password) ==
    PostRegisterWithin(username, password, admin_login, admin_password, MaxLog)

\* The pages: every GET, with the forms that set the stage
Next ==
    \/ \E path \in Paths, cookie \in Cookies : Get(path, cookie)
    \/ \E f \in PageLogins : PostLogin(f[1], f[2])
    \/ \E f \in PageRegistrations :
            PostRegister(f[1], f[2], ADMIN_LOGIN, ADMIN_PASSWORD)
    \/ Tick(SESSION_TTL)

Spec == Init /\ [][Next]_vars

\* The forms: every POST, with logout and one gated page
NextForms ==
    \/ \E u \in FormUsernames, p \in FormPasswords : PostLogin(u, p)
    \/ \E u \in FormUsernames, p \in FormPasswords, a \in AdminPairs :
            PostRegister(u, p, a[1], a[2])
    \/ \E path \in FormPaths, cookie \in Cookies : Get(path, cookie)
    \/ Tick(SESSION_TTL)

SpecForms == Init /\ [][NextForms]_vars

\* The gate: the gated routes and logout, with sessions of both roles
NextGate ==
    \/ \E path \in GatePaths, cookie \in Cookies : Get(path, cookie)
    \/ \E f \in GateLogins : PostLogin(f[1], f[2])
    \/ \E f \in GateRegistrations :
            PostRegister(f[1], f[2], ADMIN_LOGIN, ADMIN_PASSWORD)
    \/ Tick(SESSION_TTL)

SpecGate == Init /\ [][NextGate]_vars

\* Registration: every way of filling the registration form, with the logins
\* of the administrator and of a registered user
RegisterPasswords == {"pw1", " "}

NextRegister ==
    \/ \E u \in FormUsernames, p \in RegisterPasswords, a \in AdminPairs :
            PostRegister(u, p, a[1], a[2])
    \/ \E f \in GateLogins : PostLogin(f[1], f[2])

SpecRegister == Init /\ [][NextRegister]_vars

\* Logout: logins and a registration that open sessions, and logout with
\* every cookie. Each entry of the log but the first comes from opening or
\* closing a session, so the log cannot outgrow LogoutLog and the sessions
\* are what bounds this specification.
LogoutLog == 1 + 2 * MaxSessions
LogoutLogins == {<<"admin", "12345">>}
LogoutRegistrations == {<<" alice ", "pw1">>}

NextLogout ==
    \/ \E cookie \in Cookies : GetWithin(<<"/logout">>, cookie, LogoutLog)
    \/ \E f \in LogoutLogins : PostLoginWithin(f[1], f[2], LogoutLog)
    \/ \E f \in LogoutRegistrations :
            PostRegisterWithin(f[1], f[2], ADMIN_LOGIN, ADMIN_PASSWORD, LogoutLog)
    \/ Tick(SESSION_TTL)

SpecLogout == Init /\ [][NextLogout]_vars

-----------------------------------------------------------------------------
(* Two registrations in two threads. register is a plain def, so the server
   runs it in a thread of its pool and two requests can be inside it at
   once. Each thread is followed from the call of create_user: the read of
   the table with the check, the rewrite of the file, then the session and
   the log entry. The rewrite of the file is taken as one step. *)

RacePasswords == {"pw1", "pw2"}

\* users = self.get_all_users(); if username in users["username"].values:
\*     return False
RegisterRead(t, username, password) ==
    /\ threads[t].pc = "idle"
    /\ threads' = [threads EXCEPT ![t] =
            IF \E i \in 1..Len(get_all_users) :
                    get_all_users[i].username = username
            THEN [pc |-> "done", arg |-> <<username, password>>,
                  local |-> get_all_users, ret |-> "False"]
            ELSE [pc |-> "write", arg |-> <<username, password>>,
                  local |-> get_all_users, ret |-> None]]
    /\ UNCHANGED <<users_csv, logs_csv, sessions, minted, registered, now,
                   call, ret>>

\* users = pd.concat([users, new_user]); users.to_csv(...); return True
RegisterWrite(t) ==
    /\ threads[t].pc = "write"
    /\ users_csv' = create_user_write(threads[t].local, threads[t].arg[1],
                                      threads[t].arg[2],
                                      register_role(threads[t].arg[1]))
    /\ registered' = registered \cup {threads[t].arg}
    /\ threads' = [threads EXCEPT ![t].pc = "session", ![t].ret = "True"]
    /\ UNCHANGED <<logs_csv, sessions, minted, now, call, ret>>

\* session_id = session_manager.create_session(username); write_log(...)
RegisterSession(t) ==
    /\ threads[t].pc = "session"
    /\ FreshIds # {}
    /\ sessions' = create_session_tbl(sessions, uuid4, threads[t].arg[1], now)
    /\ minted' = Minted(sessions')
    /\ logs_csv' = write_log(logs_csv, "INFO", "register_ok", threads[t].arg[1])
    /\ threads' = [threads EXCEPT ![t].pc = "done"]
    /\ UNCHANGED <<users_csv, registered, now, call, ret>>

NextRace ==
    \/ \E t \in Threads, u \in Usernames, p \in RacePasswords :
            RegisterRead(t, u, p)
    \/ \E t \in Threads : RegisterWrite(t)
    \/ \E t \in Threads : RegisterSession(t)

SpecRace == Init /\ [][NextRace]_vars

-----------------------------------------------------------------------------
(* Calls of SessionManager in two threads, statement by statement. The
   routes that call get_username and delete_session are plain defs run in
   the thread pool, and the middleware calls get_username on the event
   loop's thread; nothing locks the table. A thread that has returned may
   make another call. create_session is one assignment and stays one step. *)

KeyError == "<KeyError>"    \* the call raised KeyError

Returned(t) == threads[t].pc \in {"idle", "done"}

Raise(t) == [threads EXCEPT ![t].pc = "done", ![t].ret = KeyError]

\* get_username: if not session_id or session_id not in self.sessions:
\*     return None
GetUsernameCheck(t, session_id) ==
    /\ Returned(t)
    /\ threads' = [threads EXCEPT ![t] =
            IF session_id \notin DOMAIN sessions
            THEN [pc |-> "done", arg |-> <<"get_username", session_id>>,
                  local |-> <<>>, ret |-> None]
            ELSE [pc |-> "lookup", arg |-> <<"get_username", session_id>>,
                  local |-> <<>>, ret |-> None]]
    /\ UNCHANGED <<users_csv, logs_csv, sessions, minted, registered, now,
                   call, ret>>

\* session = self.sessions[session_id]
\* if datetime.now() - session["created"] > self.ttl:
GetUsernameLookup(t) ==
    /\ threads[t].pc = "lookup"
    /\ threads' =
            IF threads[t].arg[2] \notin DOMAIN sessions
            THEN Raise(t)
            ELSE [threads EXCEPT
                    ![t].local = <<sessions[threads[t].arg[2]]>>,
                    ![t].pc = IF now - sessions[threads[t].arg[2]].created
                                    > SESSION_TTL
                              THEN "expired" ELSE "live"]
    /\ UNCHANGED <<users_csv, logs_csv, sessions, minted, registered, now,
                   call, ret>>

\* del self.sessions[session_id]; return None
GetUsernameDel(t) ==
    /\ threads[t].pc = "expired"
    /\ threads' = IF threads[t].arg[2] \notin DOMAIN sessions
                  THEN Raise(t)
                  ELSE [threads EXCEPT ![t].pc = "done", ![t].ret = None]
    /\ sessions' = delete_session_tbl(sessions, threads[t].arg[2])
    /\ UNCHANGED <<users_csv, logs_csv, minted, registered, now, call, ret>>

\* session["created"] = datetime.now(); return session["username"]
\* (session is the dict looked up: the assignment shows in the table if the
\* entry is still there)
GetUsernameRefresh(t) ==
    /\ threads[t].pc = "live"
    /\ threads' = [threads EXCEPT ![t].pc = "done",
                                  ![t].ret = threads[t].local[1].username]
    /\ sessions' = IF threads[t].arg[2] \in DOMAIN sessions
                   THEN [sessions EXCEPT ![threads[t].arg[2]].created = now]
                   ELSE sessions
    /\ UNCHANGED <<users_csv, logs_csv, minted, registered, now, call, ret>>

\* delete_session: if session_id in self.sessions:
DeleteSessionCheck(t, session_id) ==
    /\ Returned(t)
    /\ threads' = [threads EXCEPT ![t] =
            IF session_id \in DOMAIN sessions
            THEN [pc |-> "del", arg |-> <<"delete_session", session_id>>,
                  local |-> <<>>, ret |-> None]
            ELSE [pc |-> "done", arg |-> <<"delete_session", session_id>>,
                  local |-> <<>>, ret |-> None]]
    /\ UNCHANGED <<users_csv, logs_csv, sessions, minted, registered, now,
                   call, ret>>

\* del self.sessions[session_id]
DeleteSessionDel(t) ==
    /\ threads[t].pc = "del"
    /\ threads' = IF threads[t].arg[2] \notin DOMAIN sessions
                  THEN Raise(t)
                  ELSE [threads EXCEPT ![t].pc = "done", ![t].ret = None]
    /\ sessions' = delete_session_tbl(sessions, threads[t].arg[2])
    /\ UNCHANGED <<users_csv, logs_csv, minted, registered, now, call, ret>>

NextSessionRace ==
    \/ \E t \in Threads, s \in SessionIds : GetUsernameCheck(t, s)
    \/ \E t \in Threads : GetUsernameLookup(t)
    \/ \E t \in Threads : GetUsernameDel(t)
    \/ \E t \in Threads : GetUsernameRefresh(t)
    \/ \E t \in Threads, s \in SessionIds : DeleteSessionCheck(t, s)
    \/ \E t \in Threads : DeleteSessionDel(t)
    \/ CreateSession(ADMIN_LOGIN)
    \/ Tick(SESSION_TTL)

SpecSessionRace == Init /\ [][NextSessionRace]_vars

-----------------------------------------------------------------------------
(* Properties of SessionManager, under SpecSession *)

IsGetUsername(s) == call'.op = "get_username" /\ call'.sid = s

\* C1, as stated: get_username on a session created (or last touched) at c
\* returns its username when now - c < TTL and None when now - c >= TTL.
C1_AbsentAtTTL ==
    [][\A s \in DOMAIN sessions :
        IsGetUsername(s) =>
            IF now - sessions[s].created < SESSION_TTL
            THEN ret' = sessions[s].username
            ELSE ret' = None]_vars

\* C1, amended: get_username returns the username when now - c <= TTL and
\* None only when now - c > TTL; at exactly now - c = TTL it still resolves.
C1_ResolvesUpToTTL ==
    [][\A s \in DOMAIN sessions :
        IsGetUsername(s) =>
            IF now - sessions[s].created <= SESSION_TTL
            THEN ret' = sessions[s].username
            ELSE ret' = None]_vars

\* get_username was called at exactly now - c = TTL and resolved
C1_Witness ==
    /\ call.op = "get_username"
    /\ call.age = SESSION_TTL
    /\ ret \in Usernames

\* C6: an identifier that was minted and is no longer in the table stays out
\* of it, and get_username on it returns None, whatever is called later.
C6_NoResurrection ==
    [][\A s \in DOMAIN minted \ DOMAIN sessions :
        /\ s \notin DOMAIN sessions'
        /\ IsGetUsername(s) => ret' = None]_vars

\* get_username on a removed identifier, asked while a session minted after
\* its removal is live
C6_Witness ==
    /\ call.op = "get_username"
    /\ call.age = -1
    /\ call.sid \in DOMAIN minted \ DOMAIN sessions
    /\ ret = None
    /\ \E s \in DOMAIN sessions : minted[s] > minted[call.sid]

\* C7: a get_username within TTL of the last touch returns the username and
\* sets created to now, however long ago the session was minted; one that
\* returns None leaves the identifier out of the table and touches no entry.
C7_SlidingExpiry ==
    [][\A s \in SessionIds :
        IsGetUsername(s) =>
            /\ (s \in DOMAIN sessions /\ now - sessions[s].created <= SESSION_TTL) =>
                  /\ ret' = sessions[s].username
                  /\ sessions' = [sessions EXCEPT ![s].created = now]
            /\ ret' = None =>
                  /\ s \notin DOMAIN sessions'
                  /\ \A o \in DOMAIN sessions \ {s} :
                        o \in DOMAIN sessions' /\ sessions'[o] = sessions[o]
                  /\ DOMAIN sessions' \subseteq DOMAIN sessions]_vars

\* a session resolves, and is refreshed, more than TTL after it was minted
C7_Witness ==
    /\ call.op = "get_username"
    /\ ret \in Usernames
    /\ now - minted[call.sid] > SESSION_TTL
    /\ sessions[call.sid].created = now

-----------------------------------------------------------------------------
(* Properties of UserService, under SpecStore *)

OnDisk(username) == \E i \in 1..Len(users_csv) : users_csv[i].username = username

\* C4, as stated: create_user for a username already in the table returns
\* False and leaves the table as it was, whatever the password and role.
C4_ExistingRejected ==
    [][(call'.op = "create_user" /\ OnDisk(call'.username)) =>
            /\ ret' = FALSE
            /\ users_csv' = users_csv]_vars

\* C5, as stated: verify_user(u, p) is true exactly when u was created with
\* password p; for every other password, and for an unknown u, it is false.
C5_VerifyOriginalOnly ==
    [][call'.op = "verify_user" =>
            ret' = (<<call'.username, call'.password>> \in registered)]_vars

-----------------------------------------------------------------------------
(* Properties of the pages, under Spec and SpecGate. call.user is what the
   request's cookie resolved to when the request came in. *)

IsGet == call.op = "GET"
RedirectsToLogin == ret.status \in {302, 307} /\ ret.location = <<"/login">>
AdminRoutes == {"admin_panel", "get_users_api", "get_logs_api"}

\* the user's row in users.csv gives the role admin
HasAdminRole(user) ==
    \E i \in 1..Len(users_csv) :
        users_csv[i].username = user /\ users_csv[i].role = "admin"
GatedRoutes == AdminRoutes \cup {"welcome_page"}

\* C2, as stated: a GET of a path outside the allow-list and the static
\* prefix, with no cookie or one that does not resolve, is answered by a
\* redirect to /login and runs no route function; for every such path.
C2_GatedRedirect ==
    (/\ IsGet
     /\ call.path \notin WHITE_URLS
     /\ ~ startswith(call.path, "/static")
     /\ call.user = None)
    => RedirectsToLogin /\ ret.handler = "none"

LoggedOut ==
    (IsGet /\ call.path = <<"/logout">> /\ call.cookie # NoCookie) =>
        /\ call.cookie \notin DOMAIN sessions
        /\ ret.cookie = DeleteCookie
        /\ RedirectsToLogin

\* the answer to a gated route asked with no cookie or a removed session
GateAfterLogout ==
    (IsGet /\ Route(call.path) \in GatedRoutes
           /\ call.cookie \notin DOMAIN sessions) =>
        RedirectsToLogin /\ ret.handler = "none"

\* C8: a logout that carried cookie s leaves s out of the session table and
\* clears the cookie; a session once out of the table stays out, so every
\* later request for a gated route with s, or with no cookie, is redirected
\* to /login; a logout with an identifier not in the table changes no entry.
C8_LogoutThenGate ==
    [][/\ LoggedOut'
       /\ GateAfterLogout'
       /\ \A s \in DOMAIN minted \ DOMAIN sessions : s \notin DOMAIN sessions'
       /\ (call'.op = "GET" /\ call'.path = <<"/logout">>
              /\ call'.cookie \notin DOMAIN sessions) => sessions' = sessions]_vars

\* before any session can have expired, a gated page is asked for with the
\* cookie of a session that was logged out
C8_Witness ==
    /\ now = 0
    /\ IsGet
    /\ Route(call.path) = "welcome_page"
    /\ call.cookie \in DOMAIN minted \ DOMAIN sessions
    /\ RedirectsToLogin

-----------------------------------------------------------------------------
(* Properties of the forms, under SpecForms *)

IsPost(s) == s.op \in {"POST /login", "POST /register"}

\* the state after a login or registration that answered 302
MintedSessionOpensWelcome ==
    (IsPost(call) /\ ret.status = 302) =>
        /\ ret.location = <<"/welcome", "/", strip(call.username)>>
        /\ ret.cookie \in DOMAIN sessions
        /\ sessions[ret.cookie].username = strip(call.username)
        /\ auth_middleware(ret.location, ret.cookie).resp.status = 200
        /\ auth_middleware(ret.location, ret.cookie).resp.body = strip(call.username)

\* C9, as stated: a successful login or registration for u answers 302 to
\* /welcome/u with a cookie that resolves to u, and GET /welcome/u with that
\* cookie then returns 200 for u; a session enters the table on no other step.
C9_SessionMinting ==
    [][/\ MintedSessionOpensWelcome'
       /\ ~ (DOMAIN sessions' \subseteq DOMAIN sessions) =>
             IsPost(call') /\ ret'.status = 302]_vars

\* C10, as stated: a login with a non-empty username and a wrong password
\* appends exactly one WARNING row and creates no session, and a login of a
\* registered user with the password they registered still succeeds,
\* however many attempts failed before.
C10_NoLockout ==
    [][call'.op = "POST /login" =>
        LET u == strip(call'.username)
            p == strip(call'.password)
        IN  /\ (u # "" /\ p # "" /\ <<u, p>> \notin registered) =>
                  /\ logs_csv' = write_log(logs_csv, "WARNING", "login_failed", u)
                  /\ sessions' = sessions
                  /\ ret'.status = 200
            /\ <<u, p>> \in registered => ret'.status = 302]_vars

\* The routes that carry a username in the path: /welcome/{username} and
\* /main/{username}
IdentityRoutes == {"welcome_page", "admin_panel"}

\* C11: a GET of /welcome/{username} or /main/{username} whose session
\* resolves to a user other than the one named in the path is answered 403.
C11_IdentityGate ==
    (IsGet /\ Route(call.path) \in IdentityRoutes
           /\ call.user # None /\ call.user # call.path[3])
        => ret.status = 403

\* the administrator asked for the profile page of a registered user and was
\* refused
C11_Witness ==
    /\ IsGet
    /\ call.path = <<"/welcome", "/", "alice">>
    /\ call.user = ADMIN_LOGIN
    /\ OnDisk("alice")
    /\ ret.status = 403

-----------------------------------------------------------------------------
(* Properties of registration, under SpecRegister *)

IsRegister == call.op = "POST /register"

AdminPairGiven ==
    call.admin_login = ADMIN_LOGIN /\ call.admin_password = ADMIN_PASSWORD

\* C12: exactly one record of users.csv has role admin: the first, written at
\* start-up, with the username ADMIN_LOGIN and the digest of ADMIN_PASSWORD;
\* no registration adds a second admin record or changes that one.
C12_SingleAdmin ==
    /\ users_csv[1] = [username |-> ADMIN_LOGIN,
                       password |-> hash_password(ADMIN_PASSWORD),
                       role |-> "admin"]
    /\ \A i \in 2..Len(users_csv) : users_csv[i].role # "admin"

\* a registration under the administrator's name, with the right admin pair,
\* was handled after another user had been registered
C12_Witness ==
    /\ IsRegister
    /\ strip(call.username) = ADMIN_LOGIN
    /\ strip(call.password) # ""
    /\ AdminPairGiven
    /\ Len(users_csv) > 1
    /\ ret.status = 200

\* C17: a POST /register that is rejected (the form is shown again with an
\* error) leaves the user table and the session table as they were and sets
\* no cookie; and the user table changes only under a registration that
\* carries the right admin pair.
C17_RejectedChangesNothing ==
    [][/\ (call'.op = "POST /register" /\ ret'.status # 302) =>
            /\ users_csv' = users_csv
            /\ sessions' = sessions
            /\ ret'.cookie = KeepCookie
       /\ users_csv' # users_csv =>
            /\ call'.op = "POST /register"
            /\ call'.admin_login = ADMIN_LOGIN
            /\ call'.admin_password = ADMIN_PASSWORD]_vars

\* a registration of a new username with a wrong admin pair was rejected,
\* with a user registered and a session open before it
C17_Witness ==
    /\ IsRegister
    /\ ~ AdminPairGiven
    /\ strip(call.username) # "" /\ strip(call.password) # ""
    /\ ~ OnDisk(strip(call.username))
    /\ ret.status = 200
    /\ Len(users_csv) > 1
    /\ sessions # <<>>

-----------------------------------------------------------------------------
(* Properties of concurrent registrations, under SpecRace *)

\* C13: no two records of the user table share a username, also when two
\* create_user operations interleave between the read of the table and the
\* rewrite of the file.
C13_UniqueUsernames ==
    \A i, j \in 1..Len(get_all_users) :
        i # j => get_all_users[i].username # get_all_users[j].username

\* Both threads have finished a registration that create_user accepted, for
\* different usernames, and both had read the same table: neither had
\* rewritten the file when the other read it
BothReadThenWrote ==
    /\ \A t \in Threads : threads[t].pc = "done" /\ threads[t].ret = "True"
    /\ threads["t1"].local = threads["t2"].local
    /\ threads["t1"].arg[1] # threads["t2"].arg[1]

\* C15: when two create_user operations for different, absent usernames both
\* read the table before either rewrites it, both return True, the table
\* grows by one record only and holds exactly one of the two usernames,
\* while both users hold a session.
C15_LostUpdate ==
    BothReadThenWrote =>
        /\ Len(users_csv) = Len(threads["t1"].local) + 1
        /\ OnDisk(threads["t1"].arg[1]) # OnDisk(threads["t2"].arg[1])
        /\ \A t \in Threads :
                \E s \in DOMAIN sessions :
                    sessions[s].username = threads[t].arg[1]

\* the registration of the first thread was accepted and opened a session,
\* and its record is not in the table
C15_Witness ==
    /\ BothReadThenWrote
    /\ ~ OnDisk(threads["t1"].arg[1])
    /\ \E s \in DOMAIN sessions : sessions[s].username = threads["t1"].arg[1]

-----------------------------------------------------------------------------
(* Properties of the stored records, requests handled one at a time *)

\* C14: a record of the user table stays in it, with the same username,
\* digest and role and at the same position, under every later request; the
\* table changes only by growing at its end.
C14_RecordsPermanent ==
    [][/\ Len(users_csv') >= Len(users_csv)
       /\ \A i \in 1..Len(users_csv) : users_csv'[i] = users_csv[i]]_vars

\* C19: with requests handled one at a time, the username of every entry of
\* the session table is the username of a record of the user table.
C19_SessionsOfUsers ==
    \A s \in DOMAIN sessions : OnDisk(sessions[s].username)

-----------------------------------------------------------------------------
(* Properties of logout, under SpecLogout *)

\* the cookie names a session that get_username resolves now
Resolves(cookie) ==
    /\ cookie \in DOMAIN sessions
    /\ now - sessions[cookie].created <= SESSION_TTL

\* C18: GET /logout with cookie s removes no entry of the session table but
\* that of s, leaves every other entry (other sessions of the same user
\* too) and the user table as they were, and appends one INFO entry to the
\* log when s resolved and none when there is no cookie or s is unknown or
\* expired.
C18_LogoutOwnSession ==
    [][(call'.op = "GET" /\ call'.path = <<"/logout">>) =>
        /\ DOMAIN sessions \ {call'.cookie} \subseteq DOMAIN sessions'
        /\ DOMAIN sessions' \subseteq DOMAIN sessions
        /\ \A s \in DOMAIN sessions \ {call'.cookie} : sessions'[s] = sessions[s]
        /\ users_csv' = users_csv
        /\ logs_csv' = IF Resolves(call'.cookie)
                       THEN Append(logs_csv,
                                   [level |-> "INFO", event |-> "logout",
                                    username |-> sessions[call'.cookie].username])
                       ELSE logs_csv]_vars

\* a user with two sessions logged one of them out: the other is still in
\* the table
C18_Witness ==
    /\ IsGet /\ call.path = <<"/logout">>
    /\ call.user # None
    /\ call.cookie \notin DOMAIN sessions
    /\ \E s \in DOMAIN sessions : sessions[s].username = call.user
    /\ logs_csv[Len(logs_csv)].event = "logout"

-----------------------------------------------------------------------------
(* Properties of concurrent session calls, under SpecSessionRace *)

\* C16: when calls of get_username and delete_session interleave statement
\* by statement, every call returns normally: none fails by looking up or
\* deleting an entry another call has removed.
C16_NoCallFails ==
    \A t \in Threads : threads[t].ret # KeyError

====
